---------------------------- MODULE Spec2Model ----------------------------
(***************************************************************************)
(* popple: a chat "karma" bot.                                             *)
(*                                                                         *)
(* src/cmd/popplebot/main.go holds three Go files one after the other:     *)
(*   lines   1-465  the bot front end: publisher (inbound chat message ->  *)
(*                  request event on the bus) and consumer (response event *)
(*                  -> outbound gateway call);                             *)
(*   lines 467-657  the command handlers that work on the ledger store     *)
(*                  directly: CheckKarma, SetAnnounce, ModKarma, board,    *)
(*                  marshalSubjects;                                       *)
(*   lines 659-747  the router's tests.                                    *)
(*                                                                         *)
(* Text is modelled as a sequence of one-character strings, so that the    *)
(* string functions of the code (HasPrefix, TrimSpace, Fields, Atoi) are   *)
(* computed and not assumed.                                               *)
(***************************************************************************)
EXTENDS Integers, Sequences, FiniteSets, TLC

VARIABLES
    entities,   \* the Entity table of the ledger store: a set of rows
    configs,    \* the Config table of the ledger store: a set of rows
    calls,      \* gateway calls made by the most recent handler, in order
    pubs,       \* events the most recent handler put on the request queue
    result,     \* the reply lines the most recent ledger handler built
    last,       \* name of the most recent handler
    lastGuild,  \* the guild of the message it handled
    arg,        \* the input of the handler to run (specification SpecOp)
    lastSet,    \* history: per guild, what the latest SetAnnounce chose
    wk,         \* concurrent ModKarma workers: position and locals
    sumDelta,   \* history: per (guild, name), sum of the deltas applied
    run         \* the goroutines of run: positions, the context, the stream

vars == <<entities, configs, calls, pubs, result, last, lastGuild, arg, lastSet, wk, sumDelta, run>>

(***************************************************************************)
(* Bounds of the model.                                                    *)
(***************************************************************************)
\* |karma| of a stored entry never exceeds this in the model
MaxKarma == 1
\* a message names at most this many subjects
MaxSubs == 2
\* number of concurrent ModKarma workers
MaxWorkers == 2

Guilds == {"g1", "g2"}
\* the guilds whose members write to the bot in the main specification
HomeGuilds == {"g1"}
Channel == "c1"
MessageID == "m1"

\* names as they appear in a message; "@a" and "a" are the same subject
RawNames == {<<"a">>, <<"@", "a">>, <<"b">>}
\* one occurrence's delta as ParseSubjects reports it (0: a plain word)
Deltas == {-1, 0, 1}

Subject == [Name : RawNames, Karma : Deltas]
\* the subjects of a karma query: plain words
Query == [Name : RawNames, Karma : {0}]

SeqsUpTo(S, n) == UNION {[1..k -> S] : k \in 0..n}

(***************************************************************************)
(* Go's strings and strconv functions, on sequences of characters.         *)
(***************************************************************************)
HasPrefix(s, p) == Len(s) >= Len(p) /\ SubSeq(s, 1, Len(p)) = p

RECURSIVE TrimLeft(_)
TrimLeft(s) == IF s # <<>> /\ Head(s) = " " THEN TrimLeft(Tail(s)) ELSE s

RECURSIVE TrimRight(_)
TrimRight(s) ==
    IF s # <<>> /\ s[Len(s)] = " " THEN TrimRight(SubSeq(s, 1, Len(s) - 1)) ELSE s

TrimSpace(s) == TrimRight(TrimLeft(s))

\* strings.Fields: the maximal runs of non-space characters
RECURSIVE FieldsFrom(_, _, _)
FieldsFrom(s, cur, acc) ==
    IF s = <<>>
    THEN IF cur = <<>> THEN acc ELSE Append(acc, cur)
    ELSE IF Head(s) = " "
         THEN FieldsFrom(Tail(s), <<>>, IF cur = <<>> THEN acc ELSE Append(acc, cur))
         ELSE FieldsFrom(Tail(s), Append(cur, Head(s)), acc)

Fields(s) == FieldsFrom(s, <<>>, <<>>)

DigitChars == <<"0", "1", "2", "3", "4", "5", "6", "7", "8", "9">>

IsDigit(c) == \E i \in 1..10 : DigitChars[i] = c

DigitVal(c) == (CHOOSE i \in 1..10 : DigitChars[i] = c) - 1

RECURSIVE DigitsVal(_, _)
DigitsVal(s, acc) ==
    IF s = <<>> THEN acc ELSE DigitsVal(Tail(s), 10 * acc + DigitVal(Head(s)))

\* strconv.Atoi: an optional sign and one or more decimal digits
Atoi(s) ==
    LET signed == s # <<>> /\ Head(s) \in {"+", "-"}
        digits == IF signed THEN Tail(s) ELSE s
        ok     == digits # <<>> /\ \A i \in 1..Len(digits) : IsDigit(digits[i])
        mag    == IF ok THEN DigitsVal(digits, 0) ELSE 0
    IN  [ok |-> ok, val |-> IF signed /\ Head(s) = "-" THEN 0 - mag ELSE mag]

(***************************************************************************)
(* The ledger store.  A row of a table is identified by its unique key     *)
(* ((GuildID, Name) for Entity, GuildID for Config); each call on db is    *)
(* one atomic operation of the store.                                      *)
(***************************************************************************)
ZeroEntity == [GuildID |-> "", Name |-> <<>>, Karma |-> 0]
ZeroConfig == [GuildID |-> "", NoAnnounce |-> FALSE]

\* faulty variant: the condition leaves the guild out
MatchesEntityAnyGuild(row, cond) == cond.Name # <<>> => row.Name = cond.Name

\* db.Where(&Entity{...}): a struct condition constrains the non-zero fields
MatchesEntity(row, cond) ==
    /\ cond.GuildID # "" => row.GuildID = cond.GuildID
    /\ cond.Name # <<>> => row.Name = cond.Name

MatchesConfig(row, cond) == cond.GuildID # "" => row.GuildID = cond.GuildID

SameEntity(r, e) == r.GuildID = e.GuildID /\ r.Name = e.Name

\* db.Where(cond).First(&entity): the destination keeps its zero value when
\* no row matches
FirstEntity(db, cond) ==
    LET found == {r \in db : MatchesEntity(r, cond)}
    IN  IF found = {} THEN ZeroEntity ELSE CHOOSE r \in found : TRUE

\* db.Where(cond).FirstOrCreate(&entity): a missing row is inserted with the
\* condition's fields and zero values elsewhere
FirstOrCreateEntity(db, cond) ==
    LET found == {r \in db : MatchesEntity(r, cond)}
        fresh == [GuildID |-> cond.GuildID, Name |-> cond.Name, Karma |-> 0]
    IN  IF found = {}
        THEN [db |-> db \cup {fresh}, entity |-> fresh]
        ELSE [db |-> db, entity |-> CHOOSE r \in found : TRUE]

\* db.Save(entity): write every field of the row, inserting it when missing
SaveEntity(db, e) == {r \in db : ~SameEntity(r, e)} \cup {e}

\* db.Delete(entity)
DeleteEntity(db, e) == {r \in db : ~SameEntity(r, e)}

FirstOrCreateConfig(db, cond) ==
    LET found == {r \in db : MatchesConfig(r, cond)}
        fresh == [GuildID |-> cond.GuildID, NoAnnounce |-> FALSE]
    IN  IF found = {}
        THEN [db |-> db \cup {fresh}, cfg |-> fresh]
        ELSE [db |-> db, cfg |-> CHOOSE r \in found : TRUE]

SaveConfig(db, c) == {r \in db : r.GuildID # c.GuildID} \cup {c}

(***************************************************************************)
(* marshalSubjects: merge the occurrences of one name into a net delta.    *)
(***************************************************************************)
\* associate @user with user
ResolveName(name) ==
    IF Len(name) > 1 /\ name[1] = "@" THEN Tail(name) ELSE name

RECURSIVE MarshalFrom(_, _)
MarshalFrom(subs, subMap) ==
    IF subs = <<>> THEN subMap
    ELSE LET s     == Head(subs)
             name  == ResolveName(s.Name)
             karma == (IF name \in DOMAIN subMap THEN subMap[name] ELSE 0) + s.Karma
         IN  MarshalFrom(Tail(subs),
                 [n \in DOMAIN subMap \cup {name} |->
                     IF n = name THEN karma ELSE subMap[n]])

marshalSubjects(subs) == MarshalFrom(subs, <<>>)

\* the orders in which a Go range statement may visit the keys of a map
RangeOrders(m) ==
    LET keys == DOMAIN m
    IN  {o \in [1..Cardinality(keys) -> keys] :
            \A i, j \in 1..Cardinality(keys) : i # j => o[i] # o[j]}

(***************************************************************************)
(* Gateway calls.  The body of a message is kept as the name of its format *)
(* and the lines it is rendered from.                                      *)
(***************************************************************************)
Text(fmt, lines) == [fmt |-> fmt, lines |-> lines]

ChannelMessageSend(ch, text) ==
    [op |-> "ChannelMessageSend", ChannelID |-> ch, MessageID |-> "", body |-> text]

ChannelMessageSendReply(ch, text, mid) ==
    [op |-> "ChannelMessageSendReply", ChannelID |-> ch, MessageID |-> mid, body |-> text]

MessageReactionAdd(ch, mid, emoji) ==
    [op |-> "MessageReactionAdd", ChannelID |-> ch, MessageID |-> mid,
     body |-> Text(emoji, <<>>)]

\* "<name> has <karma> karma."
Line(name, karma) == [Name |-> name, Karma |-> karma]

(***************************************************************************)
(* ModKarma                                                                *)
(***************************************************************************)
\* faulty variant: the entry is saved whatever its karma
ModWriteKeepsZero(db, entity) == SaveEntity(db, entity)

\* the end of one iteration: delete the entry at zero, save it otherwise
ModWrite(db, entity) ==
    IF entity.Karma = 0 THEN DeleteEntity(db, entity) ELSE SaveEntity(db, entity)

\* faulty variant: the reply is written before the net karma is added
ModStepStale(db, guildID, subject, netKarma) ==
    LET foc    == FirstOrCreateEntity(db, [GuildID |-> guildID, Name |-> subject])
        entity == [foc.entity EXCEPT !.Karma = @ + netKarma]
    IN  [db |-> ModWrite(foc.db, entity), line |-> Line(entity.Name, foc.entity.Karma)]

\* one iteration of the loop over the modifiers, for a non-zero net karma
ModStep(db, guildID, subject, netKarma) ==
    LET foc    == FirstOrCreateEntity(db, [GuildID |-> guildID, Name |-> subject])
        entity == [foc.entity EXCEPT !.Karma = @ + netKarma]
    IN  [db |-> ModWrite(foc.db, entity), line |-> Line(entity.Name, entity.Karma)]

\* faulty variant: the loop without the test of a zero net karma
RECURSIVE ModLoopNoSkip(_, _, _, _, _)
ModLoopNoSkip(db, guildID, order, modifiers, reply) ==
    IF order = <<>> THEN [db |-> db, reply |-> reply]
    ELSE LET st == ModStep(db, guildID, Head(order), modifiers[Head(order)])
         IN  ModLoopNoSkip(st.db, guildID, Tail(order), modifiers,
                           Append(reply, st.line))

\* the loop over the modifiers, visited in the order `order`
RECURSIVE ModLoop(_, _, _, _, _)
ModLoop(db, guildID, order, modifiers, reply) ==
    IF order = <<>> THEN [db |-> db, reply |-> reply]
    ELSE LET subject  == Head(order)
             netKarma == modifiers[subject]
         IN  IF netKarma = 0
             THEN ModLoop(db, guildID, Tail(order), modifiers, reply)
             ELSE LET st == ModStep(db, guildID, subject, netKarma)
                  IN  ModLoop(st.db, guildID, Tail(order), modifiers,
                              Append(reply, st.line))

\* faulty variant: the reply of ModKarma is sent whatever the config says
ModAnnounceAlways(cfg, ch, reply) == <<ChannelMessageSend(ch, Text("levels", reply))>>

\* the reply of ModKarma: sent unless the guild's config says NoAnnounce
ModAnnounce(cfg, ch, reply) ==
    IF ~cfg.NoAnnounce
    THEN <<ChannelMessageSend(ch, Text("levels", reply))>>
    ELSE <<>>

InRange(db) == \A r \in db : r.Karma \in -MaxKarma..MaxKarma

ModKarma(guildID, ch, subs) ==
    LET modifiers == marshalSubjects(subs)
    IN  \E order \in RangeOrders(modifiers) :
            LET r == ModLoop(entities, guildID, order, modifiers, <<>>)
            IN  /\ InRange(r.db)
                /\ entities' = r.db
                /\ IF r.reply = <<>>
                   THEN /\ calls' = <<>>
                        /\ UNCHANGED configs
                   ELSE LET c == FirstOrCreateConfig(configs, [GuildID |-> guildID])
                        IN  /\ configs' = c.db
                            /\ calls' = ModAnnounce(c.cfg, ch, r.reply)
                /\ result' = r.reply
                /\ pubs' = <<>>
                /\ last' = "ModKarma"
                /\ lastGuild' = guildID
                /\ UNCHANGED <<arg, lastSet, wk, sumDelta, run>>

(***************************************************************************)
(* CheckKarma                                                              *)
(***************************************************************************)
\* the row read for one subject
CheckRead(db, guildID, subject) ==
    FirstEntity(db, [GuildID |-> guildID, Name |-> subject])

\* faulty variant: the loop reads with FirstOrCreate
RECURSIVE CheckStoreCreates(_, _, _)
CheckStoreCreates(db, guildID, order) ==
    IF order = <<>> THEN db
    ELSE CheckStoreCreates(
             FirstOrCreateEntity(db, [GuildID |-> guildID, Name |-> Head(order)]).db,
             guildID, Tail(order))

\* the store after the loop of reads: First writes nothing
CheckStore(db, guildID, order) == db

CheckReply(db, guildID, order) ==
    [i \in 1..Len(order) |-> Line(order[i], CheckRead(db, guildID, order[i]).Karma)]

CheckKarma(guildID, ch, subs) ==
    LET subjects == marshalSubjects(subs)
    IN  \E order \in RangeOrders(subjects) :
            /\ entities' = CheckStore(entities, guildID, order)
            /\ result' = CheckReply(entities, guildID, order)
            /\ calls' = <<ChannelMessageSend(ch, Text("levels", CheckReply(entities, guildID, order)))>>
            /\ pubs' = <<>>
            /\ last' = "CheckKarma"
            /\ lastGuild' = guildID
            /\ UNCHANGED <<configs, arg, lastSet, wk, sumDelta, run>>

(***************************************************************************)
(* SetAnnounce                                                             *)
(***************************************************************************)
\* the message after the command header, as the handler reads it
AnnounceTexts ==
    {<<"o", "n">>, <<"y", "e", "s">>, <<"o", "f", "f">>, <<"n", "o">>,
     <<>>, <<"x">>}

AnnounceIsOn(message) ==
    HasPrefix(message, <<"o", "n">>) \/ HasPrefix(message, <<"y", "e", "s">>)

AnnounceIsOff(message) ==
    HasPrefix(message, <<"o", "f", "f">>) \/ HasPrefix(message, <<"n", "o">>)

\* faulty variant: NoAnnounce is set to on
SetAnnounceStoreSame(db, guildID, on) ==
    LET c == FirstOrCreateConfig(db, [GuildID |-> guildID])
    IN  SaveConfig(c.db, [c.cfg EXCEPT !.NoAnnounce = on])

\* read-or-create the config, set NoAnnounce, save
SetAnnounceStore(db, guildID, on) ==
    LET c == FirstOrCreateConfig(db, [GuildID |-> guildID])
    IN  SaveConfig(c.db, [c.cfg EXCEPT !.NoAnnounce = ~on])

SetAnnounce(guildID, ch, mid, message) ==
    /\ IF AnnounceIsOn(message) \/ AnnounceIsOff(message)
       THEN /\ configs' = SetAnnounceStore(configs, guildID, AnnounceIsOn(message))
            /\ calls' = <<MessageReactionAdd(ch, mid, "thumbsup")>>
            /\ lastSet' = [lastSet EXCEPT ![guildID] =
                              IF AnnounceIsOn(message) THEN "on" ELSE "off"]
       ELSE /\ calls' = <<ChannelMessageSendReply(ch, Text("announce-settings", <<>>), mid)>>
            /\ UNCHANGED <<configs, lastSet>>
    /\ pubs' = <<>>
    /\ result' = <<>>
    /\ last' = "SetAnnounce"
    /\ lastGuild' = guildID
    /\ UNCHANGED <<entities, arg, wk, sumDelta, run>>

(***************************************************************************)
(* board (Top, Bot)                                                        *)
(***************************************************************************)
DefaultLimit == 10

BoardTexts == {<<>>, <<"1">>, <<"2">>, <<"0">>, <<"-", "1">>, <<"x">>}

\* the limit board reads from the message: a bad one falls back silently
BoardLimit(message) ==
    LET parts == Fields(message)
        limitArg == IF Len(parts) > 0 THEN Atoi(parts[1]) ELSE [ok |-> FALSE, val |-> 0]
    IN  IF Len(parts) > 0 /\ limitArg.ok /\ limitArg.val > 0 THEN limitArg.val ELSE DefaultLimit

Min(a, b) == IF a < b THEN a ELSE b

\* faulty variant: the two orders are exchanged
InOrderExchanged(sort, x, y) == IF sort = "desc" THEN x <= y ELSE x >= y

\* Order("karma <sort>"): rows of equal karma come in any order
InOrder(sort, x, y) == IF sort = "desc" THEN x >= y ELSE x <= y

\* db.Where(&Entity{GuildID}).Order(...).Limit(limit).Find(&entities)
BoardFind(db, guildID, sort, limit) ==
    LET rows == {r \in db : MatchesEntity(r, [GuildID |-> guildID, Name |-> <<>>])}
        n    == Cardinality(rows)
        all  == {o \in [1..n -> rows] :
                    /\ \A i, j \in 1..n : i # j => o[i] # o[j]
                    /\ \A i, j \in 1..n : i < j => InOrder(sort, o[i].Karma, o[j].Karma)}
    IN  {SubSeq(o, 1, Min(limit, n)) : o \in all}

BoardLines(found) == [i \in 1..Len(found) |-> Line(found[i].Name, found[i].Karma)]

board(guildID, ch, sort, message) ==
    \E found \in BoardFind(entities, guildID, sort, BoardLimit(message)) :
        /\ calls' = <<ChannelMessageSend(ch, Text("board", BoardLines(found)))>>
        /\ result' = BoardLines(found)
        /\ pubs' = <<>>
        /\ last' = IF sort = "desc" THEN "Top" ELSE "Bot"
        /\ lastGuild' = guildID
        /\ UNCHANGED <<entities, configs, arg, lastSet, wk, sumDelta, run>>

Top(guildID, ch, message) == board(guildID, ch, "desc", message)

Bot(guildID, ch, message) == board(guildID, ch, "asc", message)

(***************************************************************************)
(* Bounds and inputs of the bot front end.                                 *)
(***************************************************************************)
\* an envelope on the response stream populates at most this many fields
MaxPopulated == 2

\* session.State.User.Username
Username == <<"c">>

\* inbound message contents
Contents ==
    {<<"@", "c", " ", "a", "n", "n", "o", "u", "n", "c", "e", " ", "o", "n">>,
     <<"@", "c", " ", "a", "n", "n", "o", "u", "n", "c", "e", " ", "o", "f", "f">>,
     <<"@", "c", " ", "a", "n", "n", "o", "u", "n", "c", "e", " ", "N", "o">>,
     <<"@", "c", " ", "a", "n", "n", "o", "u", "n", "c", "e">>,
     <<"@", "c", " ", "a", "n", "n", "o", "u", "n", "c", "e", " ", "x">>,
     <<"@", "c", " ", "k", "a", "r", "m", "a", " ", "a">>,
     <<"@", "c", " ", "k", "a", "r", "m", "a", " ", "@", "a", " ", "b">>,
     <<"@", "c", " ", "k", "a", "r", "m", "a">>,
     <<"@", "c", " ", "t", "o", "p">>,
     <<"@", "c", " ", "t", "o", "p", " ", "3">>,
     <<"@", "c", " ", "t", "o", "p", " ", "0">>,
     <<"@", "c", " ", "t", "o", "p", " ", "-", "1">>,
     <<"@", "c", " ", "t", "o", "p", " ", "x">>,
     <<"@", "c", " ", "b", "o", "t">>,
     <<"@", "c", " ", "b", "o", "t", " ", "2">>,
     <<"@", "c", " ", "b", "o", "t", " ", "-", "1">>,
     <<"a", "+", "+">>,
     <<"a", "+", "+", " ", "@", "a", "-", "-">>,
     <<"b", "-", "-", "-", "-">>,
     <<"h", "e", "l", "l", "o">>,
     <<"@", "c", " ", "a", "+", "+">>,
     <<" ", "@", "c", " ", "t", "o", "p", " ">>}

(***************************************************************************)
(* Command router and argument parsers (package popple).                   *)
(***************************************************************************)
Drop(s, n) == SubSeq(s, n + 1, Len(s))

Keywords ==
    <<[word |-> <<"a", "n", "n", "o", "u", "n", "c", "e">>, kind |-> "Announce"],
      [word |-> <<"k", "a", "r", "m", "a">>, kind |-> "Karma"],
      [word |-> <<"t", "o", "p">>, kind |-> "Leaderboard"],
      [word |-> <<"b", "o", "t">>, kind |-> "Loserboard"]>>

\* faulty variant: the body of a matched route loses its leading spaces
RouteTrimsBody(prefix, text) ==
    IF ~HasPrefix(text, prefix)
    THEN [kind |-> "BumpKarma", body |-> text]
    ELSE LET rest == Drop(text, Len(prefix))
             cmd  == IF rest # <<>> /\ Head(rest) = " " THEN Tail(rest) ELSE rest
             hits == {i \in 1..Len(Keywords) : HasPrefix(cmd, Keywords[i].word)}
         IN  IF hits = {}
             THEN [kind |-> "BumpKarma", body |-> rest]
             ELSE LET k == Keywords[CHOOSE i \in hits : TRUE]
                  IN  [kind |-> k.kind, body |-> TrimLeft(Drop(cmd, Len(k.word)))]

\* faulty variant: the keyword is looked for in the whole text, prefix or not
RouteAnywhere(prefix, text) ==
    LET rest == IF HasPrefix(text, prefix) THEN Drop(text, Len(prefix)) ELSE text
        cmd  == IF rest # <<>> /\ Head(rest) = " " THEN Tail(rest) ELSE rest
        hits == {i \in 1..Len(Keywords) : HasPrefix(cmd, Keywords[i].word)}
    IN  IF hits = {}
        THEN [kind |-> "BumpKarma", body |-> rest]
        ELSE LET k == Keywords[CHOOSE i \in hits : TRUE]
             IN  [kind |-> k.kind, body |-> Drop(cmd, Len(k.word))]

\* mux.Route, for a mux made by NewMux(prefix)
Route(prefix, text) ==
    IF ~HasPrefix(text, prefix)
    THEN [kind |-> "BumpKarma", body |-> text]
    ELSE LET rest == Drop(text, Len(prefix))
             cmd  == IF rest # <<>> /\ Head(rest) = " " THEN Tail(rest) ELSE rest
             hits == {i \in 1..Len(Keywords) : HasPrefix(cmd, Keywords[i].word)}
         IN  IF hits = {}
             THEN [kind |-> "BumpKarma", body |-> rest]
             ELSE LET k == Keywords[CHOOSE i \in hits : TRUE]
                  IN  [kind |-> k.kind, body |-> Drop(cmd, Len(k.word))]

LowerOf(c) ==
    CASE c = "O" -> "o" [] c = "N" -> "n" [] c = "F" -> "f"
      [] c = "Y" -> "y" [] c = "E" -> "e" [] c = "S" -> "s"
      [] OTHER -> c

ToLower(s) == [i \in 1..Len(s) |-> LowerOf(s[i])]

\* err is "" (nil), "MissingArgument" or "InvalidArgument"
ParseAnnounceArgs(body) ==
    LET t == ToLower(TrimSpace(body))
    IN  IF t = <<>> THEN [on |-> FALSE, err |-> "MissingArgument"]
        ELSE IF HasPrefix(t, <<"o", "n">>) \/ HasPrefix(t, <<"y", "e", "s">>)
             THEN [on |-> TRUE, err |-> ""]
        ELSE IF HasPrefix(t, <<"o", "f", "f">>) \/ HasPrefix(t, <<"n", "o">>)
             THEN [on |-> FALSE, err |-> ""]
        ELSE [on |-> FALSE, err |-> "InvalidArgument"]

ParseKarmaArgs(body) ==
    LET names == Fields(body)
    IN  IF names = <<>> THEN [who |-> <<>>, err |-> "MissingArgument"]
        ELSE [who |-> [i \in 1..Len(names) |-> ResolveName(names[i])], err |-> ""]

ParseLeaderboardArgs(body) ==
    LET parts == Fields(body)
        limitArg == IF Len(parts) > 0 THEN Atoi(parts[1]) ELSE [ok |-> FALSE, val |-> 0]
    IN  IF Len(parts) = 0 THEN [limit |-> DefaultLimit, err |-> ""]
        ELSE IF limitArg.ok /\ limitArg.val > 0 THEN [limit |-> limitArg.val, err |-> ""]
        ELSE [limit |-> 0, err |-> "InvalidArgument"]

ParseLoserboardArgs(body) == ParseLeaderboardArgs(body)

IsOperator(c) == c \in {"+", "-"}

RECURSIVE NameOf(_)
NameOf(tok) ==
    IF tok = <<>> \/ IsOperator(Head(tok)) THEN <<>>
    ELSE <<Head(tok)>> \o NameOf(Tail(tok))

\* one token: a name followed by two or more identical operator characters;
\* the delta is the number of pairs, signed
ParseToken(tok) ==
    LET name == NameOf(tok)
        ops  == Drop(tok, Len(name))
        ok   == /\ name # <<>>
                /\ Len(ops) >= 2
                /\ \A i \in 1..Len(ops) : ops[i] = ops[1]
    IN  [ok |-> ok, name |-> ResolveName(name),
         karma |-> IF ~ok THEN 0
                   ELSE IF ops[1] = "+" THEN Len(ops) \div 2 ELSE 0 - (Len(ops) \div 2)]

RECURSIVE MergeInto(_, _)
MergeInto(acc, s) ==
    IF acc = <<>> THEN <<s>>
    ELSE IF Head(acc).Name = s.Name
         THEN <<[Head(acc) EXCEPT !.Karma = @ + s.Karma]>> \o Tail(acc)
         ELSE <<Head(acc)>> \o MergeInto(Tail(acc), s)

RECURSIVE BumpFrom(_, _)
BumpFrom(toks, acc) ==
    IF toks = <<>> THEN SelectSeq(acc, LAMBDA s : s.Karma # 0)
    ELSE LET t == ParseToken(Head(toks))
         IN  BumpFrom(Tail(toks),
                 IF t.ok THEN MergeInto(acc, [Name |-> t.name, Karma |-> t.karma])
                 ELSE acc)

ParseBumpKarmaArgs(body) == BumpFrom(Fields(body), <<>>)

(***************************************************************************)
(* Events (package event): an envelope with one field per variant, each a  *)
(* pointer that is nil when the variant is absent.                         *)
(***************************************************************************)
RequestFields ==
    {"RequestChangeAnnounce", "RequestBumpKarma", "RequestCheckKarma",
     "RequestCheckLeaderboard", "RequestCheckLoserboard"}

ResponseFields ==
    {"ChangedAnnounce", "ChangedKarma", "CheckedKarma", "CheckedLeaderboard",
     "CheckedLoserboard"}

EventFields == RequestFields \cup ResponseFields

Nil == [nil |-> TRUE]

Event(field, payload) == [f \in EventFields |-> IF f = field THEN payload ELSE Nil]

Populated(e) == {f \in EventFields : e[f] # Nil}

(***************************************************************************)
(* publisher: the handler of an inbound chat message.  m is the message,   *)
(* self tells that the bot wrote it, reactOK that MessageReactionAdd       *)
(* returns no error.                                                       *)
(***************************************************************************)
PubAnnounce(m, body) ==
    LET a == ParseAnnounceArgs(body)
    IN  IF a.err \in {"MissingArgument", "InvalidArgument"}
        THEN [calls |-> <<MessageReactionAdd(m.ChannelID, m.ID, "question"),
                          ChannelMessageSend(m.ChannelID, Text("announce-settings", <<>>))>>,
              pubs |-> <<>>]
        ELSE [calls |-> <<>>,
              pubs |-> <<Event("RequestChangeAnnounce",
                          [ReactTo |-> [ChannelID |-> m.ChannelID, MessageID |-> m.ID],
                           ServerID |-> m.GuildID,
                           NoAnnounce |-> ~a.on])>>]

\* faulty variant: the envelope of a bump also holds a karma query
PubBumpKarmaTwo(m, body) ==
    [calls |-> <<>>,
     pubs |-> <<[Event("RequestBumpKarma",
                  [ReplyTo |-> [ChannelID |-> m.ChannelID],
                   ServerID |-> m.GuildID,
                   Who |-> ParseBumpKarmaArgs(body)])
                 EXCEPT !["RequestCheckKarma"] =
                  [ReplyTo |-> [ChannelID |-> m.ChannelID],
                   ServerID |-> m.GuildID,
                   Who |-> <<>>]]>>]

PubBumpKarma(m, body) ==
    [calls |-> <<>>,
     pubs |-> <<Event("RequestBumpKarma",
                 [ReplyTo |-> [ChannelID |-> m.ChannelID],
                  ServerID |-> m.GuildID,
                  Who |-> ParseBumpKarmaArgs(body)])>>]

PubKarma(m, body, reactOK) ==
    LET k == ParseKarmaArgs(body)
        request == Event("RequestCheckKarma",
                       [ReplyTo |-> [ChannelID |-> m.ChannelID],
                        ServerID |-> m.GuildID,
                        Who |-> k.who])
    IN  IF k.err # ""
        THEN IF ~reactOK
             THEN [calls |-> <<MessageReactionAdd(m.ChannelID, m.ID, "question")>>,
                   pubs |-> <<>>]
             ELSE [calls |-> <<MessageReactionAdd(m.ChannelID, m.ID, "question")>>,
                   pubs |-> <<request>>]
        ELSE [calls |-> <<>>, pubs |-> <<request>>]

\* faulty variant: the request is published whatever the parser returns
PubBoardPublishes(m, body, field) ==
    LET l == IF field = "RequestCheckLeaderboard"
             THEN ParseLeaderboardArgs(body) ELSE ParseLoserboardArgs(body)
    IN  [calls |-> <<>>,
         pubs |-> <<Event(field,
                     [ReplyTo |-> [ChannelID |-> m.ChannelID],
                      ServerID |-> m.GuildID,
                      Limit |-> l.limit])>>]

PubBoard(m, body, field) ==
    LET l == IF field = "RequestCheckLeaderboard"
             THEN ParseLeaderboardArgs(body) ELSE ParseLoserboardArgs(body)
    IN  IF l.err = "InvalidArgument"
        THEN [calls |-> <<ChannelMessageSend(m.ChannelID, Text("limit-hint", <<>>))>>,
              pubs |-> <<>>]
        ELSE [calls |-> <<>>,
              pubs |-> <<Event(field,
                          [ReplyTo |-> [ChannelID |-> m.ChannelID],
                           ServerID |-> m.GuildID,
                           Limit |-> l.limit])>>]

\* faulty variant: the test of the author is missing
PubHandleOwn(m, self, reactOK) ==
    IF Len(m.GuildID) = 0
    THEN [calls |-> <<>>, pubs |-> <<>>]
    ELSE LET r == Route(<<"@">> \o Username, TrimSpace(m.Content))
         IN  CASE r.kind = "Announce" -> PubAnnounce(m, r.body)
               [] r.kind = "BumpKarma" -> PubBumpKarma(m, r.body)
               [] r.kind = "Karma" -> PubKarma(m, r.body, reactOK)
               [] r.kind = "Leaderboard" -> PubBoard(m, r.body, "RequestCheckLeaderboard")
               [] r.kind = "Loserboard" -> PubBoard(m, r.body, "RequestCheckLoserboard")

PubHandle(m, self, reactOK) ==
    IF self \/ Len(m.GuildID) = 0
    THEN [calls |-> <<>>, pubs |-> <<>>]
    ELSE LET r == Route(<<"@">> \o Username, TrimSpace(m.Content))
         IN  CASE r.kind = "Announce" -> PubAnnounce(m, r.body)
               [] r.kind = "BumpKarma" -> PubBumpKarma(m, r.body)
               [] r.kind = "Karma" -> PubKarma(m, r.body, reactOK)
               [] r.kind = "Leaderboard" -> PubBoard(m, r.body, "RequestCheckLeaderboard")
               [] r.kind = "Loserboard" -> PubBoard(m, r.body, "RequestCheckLoserboard")

OnMessageCreate(m, self, reactOK) ==
    LET h == PubHandle(m, self, reactOK)
    IN  /\ calls' = h.calls
        /\ pubs' = h.pubs
        /\ result' = <<>>
        /\ last' = "publisher"
        /\ lastGuild' = m.GuildID
        /\ UNCHANGED <<entities, configs, arg, lastSet, wk, sumDelta, run>>

(***************************************************************************)
(* consumer: the handling of one delivery of the response stream.          *)
(***************************************************************************)
\* faulty variant: a board response is dropped
ReplyBoardNone(rsp) == <<>>

\* a board response: the board template, sent to the reply channel
ReplyBoard(rsp) ==
    <<ChannelMessageSend(rsp.ReplyTo.ChannelID, Text("board", rsp.Board))>>

\* the switch over the decoded envelope
ConsumerSwitch(actual) ==
    IF actual["CheckedKarma"] # Nil
    THEN <<ChannelMessageSend(actual["CheckedKarma"].ReplyTo.ChannelID,
                              Text("levels", actual["CheckedKarma"].Who))>>
    ELSE IF actual["CheckedLeaderboard"] # Nil
    THEN ReplyBoard(actual["CheckedLeaderboard"])
    ELSE IF actual["CheckedLoserboard"] # Nil
    THEN ReplyBoard(actual["CheckedLoserboard"])
    ELSE IF actual["ChangedAnnounce"] # Nil
    THEN <<MessageReactionAdd(actual["ChangedAnnounce"].ReactTo.ChannelID,
                              actual["ChangedAnnounce"].ReactTo.MessageID, "check")>>
    ELSE IF actual["ChangedKarma"] # Nil
    THEN IF ~actual["ChangedKarma"].Announce
         THEN <<>>
         ELSE <<ChannelMessageSend(actual["ChangedKarma"].ReplyTo.ChannelID,
                                   Text("levels", actual["ChangedKarma"].Who))>>
    ELSE <<>>

\* d.decodes: json.Unmarshal of the delivery's body returns no error
ConsumerHandle(d) == IF ~d.decodes THEN <<>> ELSE ConsumerSwitch(d.event)

OnDelivery(d) ==
    /\ calls' = ConsumerHandle(d)
    /\ pubs' = <<>>
    /\ result' = <<>>
    /\ last' = "consumer"
    /\ lastGuild' = ""
    /\ UNCHANGED <<entities, configs, arg, lastSet, wk, sumDelta, run>>

\* the payloads of the envelopes the response stream delivers
SampleWho == <<Line(<<"a">>, 1)>>

\* the channels a response may name as the place of its reply
ReplyChannels == {"c1", "c2"}

Payloads(f) ==
    CASE f = "ChangedAnnounce" ->
            {[ReactTo |-> [ChannelID |-> Channel, MessageID |-> MessageID]]}
      [] f = "ChangedKarma" ->
            {[ReplyTo |-> [ChannelID |-> c], Announce |-> a, Who |-> SampleWho] :
                c \in ReplyChannels, a \in BOOLEAN}
      [] f = "CheckedKarma" ->
            {[ReplyTo |-> [ChannelID |-> c], Who |-> SampleWho] : c \in ReplyChannels}
      [] f \in {"CheckedLeaderboard", "CheckedLoserboard"} ->
            {[ReplyTo |-> [ChannelID |-> c], Board |-> SampleWho] : c \in ReplyChannels}
      [] OTHER ->
            {[ReplyTo |-> [ChannelID |-> Channel], ServerID |-> "g1"]}

\* every envelope with at most n populated fields
RECURSIVE EnvelopesUpTo(_)
EnvelopesUpTo(n) ==
    IF n = 0 THEN {Event("none", Nil)}
    ELSE LET less == EnvelopesUpTo(n - 1)
         IN  less \cup UNION {{[e EXCEPT ![f] = p] : e \in less, p \in Payloads(f)} :
                                  f \in EventFields}

Envelopes == EnvelopesUpTo(MaxPopulated)

Deliveries ==
    {[decodes |-> FALSE, event |-> Event("none", Nil)]}
        \cup {[decodes |-> TRUE, event |-> e] : e \in Envelopes}

Messages ==
    [GuildID : {"", "g1"}, ChannelID : {Channel}, ID : {MessageID}, Content : Contents]

(***************************************************************************)
(* Spec: from the empty store, every handler runs to completion, in any    *)
(* order and with any input.                                               *)
(***************************************************************************)
NoArg ==
    [kind |-> "none", guild |-> "", subs |-> <<>>, text |-> <<>>,
     self |-> FALSE, reactOK |-> TRUE,
     delivery |-> [decodes |-> FALSE, event |-> Event("none", Nil)]]

\* a worker that runs no handler
IdleWorker ==
    [pc |-> "idle", guildID |-> "", modifiers |-> <<>>, order |-> <<>>,
     entity |-> ZeroEntity, reply |-> <<>>]

Idle == [w \in 1..MaxWorkers |-> IdleWorker]

\* run has not been called
NotRunning == [main |-> "none"]

Init ==
    /\ entities = {}
    /\ configs = {}
    /\ calls = <<>>
    /\ pubs = <<>>
    /\ result = <<>>
    /\ last = "none"
    /\ lastGuild = ""
    /\ arg = NoArg
    /\ lastSet = [g \in Guilds |-> "never"]
    /\ wk = Idle
    /\ sumDelta = <<>>
    /\ run = NotRunning

DoModKarma == \E g \in HomeGuilds, subs \in SeqsUpTo(Subject, MaxSubs) : ModKarma(g, Channel, subs)

DoCheckKarma == \E g \in HomeGuilds, subs \in SeqsUpTo(Query, MaxSubs) : CheckKarma(g, Channel, subs)

DoSetAnnounce == \E g \in HomeGuilds, t \in AnnounceTexts : SetAnnounce(g, Channel, MessageID, t)

DoTop == \E g \in HomeGuilds, t \in BoardTexts : Top(g, Channel, t)

DoBot == \E g \in HomeGuilds, t \in BoardTexts : Bot(g, Channel, t)

DoMessageCreate ==
    \E m \in Messages, self \in BOOLEAN, reactOK \in BOOLEAN : OnMessageCreate(m, self, reactOK)

DoDelivery == \E d \in Deliveries : OnDelivery(d)

Next ==
    \/ DoModKarma
    \/ DoCheckKarma
    \/ DoSetAnnounce
    \/ DoTop
    \/ DoBot
    \/ DoMessageCreate
    \/ DoDelivery

Spec == Init /\ [][Next]_vars

(***************************************************************************)
(* SpecOp: one handler, run on an input that is kept in arg, from any      *)
(* state of the store that Spec reaches (LedgerStates).                    *)
(***************************************************************************)
ResolvedNames == {ResolveName(n) : n \in RawNames}

EntityTables ==
    {t \in SUBSET [GuildID : HomeGuilds, Name : ResolvedNames,
                   Karma : (-MaxKarma..MaxKarma) \ {0}] :
        \A r1, r2 \in t : SameEntity(r1, r2) => r1 = r2}

\* a guild's config and what the latest SetAnnounce chose: no config yet, a
\* config made by ModKarma, or a config written by SetAnnounce
AnnounceStates ==
    {[cfg |-> {}, set |-> "never"],
     [cfg |-> {FALSE}, set |-> "never"],
     [cfg |-> {FALSE}, set |-> "on"],
     [cfg |-> {TRUE}, set |-> "off"]}

\* ModKarma makes the guild's config when it writes an entry
LedgerStates ==
    {l \in {[entities |-> t,
             configs  |-> {[GuildID |-> g, NoAnnounce |-> n] : g \in HomeGuilds, n \in a.cfg},
             lastSet  |-> [g \in Guilds |-> IF g \in HomeGuilds THEN a.set ELSE "never"]] :
                t \in EntityTables, a \in AnnounceStates} :
        l.entities # {} => l.configs # {}}

\* the longest list of subjects in a message that SpecOp handles
MaxOpSubs == 3

LedgerArgs ==
    {[NoArg EXCEPT !.kind = "ModKarma", !.guild = g, !.subs = subs] :
        g \in HomeGuilds, subs \in SeqsUpTo(Subject, MaxOpSubs)}
    \cup {[NoArg EXCEPT !.kind = "CheckKarma", !.guild = g, !.subs = subs] :
        g \in HomeGuilds, subs \in SeqsUpTo(Query, MaxSubs)}
    \cup {[NoArg EXCEPT !.kind = "SetAnnounce", !.guild = g, !.text = t] :
        g \in HomeGuilds, t \in AnnounceTexts}
    \cup {[NoArg EXCEPT !.kind = k, !.guild = g, !.text = t] :
        k \in {"Top", "Bot"}, g \in HomeGuilds, t \in BoardTexts}

BotArgs ==
    {[NoArg EXCEPT !.kind = "publisher", !.guild = m.GuildID, !.text = m.Content,
                   !.self = self, !.reactOK = reactOK] :
        m \in Messages, self \in BOOLEAN, reactOK \in BOOLEAN}
    \cup {[NoArg EXCEPT !.kind = "consumer", !.delivery = d] : d \in Deliveries}

InitOp ==
    /\ \E l \in LedgerStates, a \in LedgerArgs \cup BotArgs :
          /\ entities = l.entities
          /\ configs = l.configs
          /\ lastSet = l.lastSet
          /\ arg = a
    /\ calls = <<>>
    /\ pubs = <<>>
    /\ result = <<>>
    /\ last = "none"
    /\ lastGuild = ""
    /\ wk = Idle
    /\ sumDelta = <<>>
    /\ run = NotRunning

ArgMessage ==
    [GuildID |-> arg.guild, ChannelID |-> Channel, ID |-> MessageID, Content |-> arg.text]

OpModKarma == last = "none" /\ arg.kind = "ModKarma" /\ ModKarma(arg.guild, Channel, arg.subs)

OpCheckKarma == last = "none" /\ arg.kind = "CheckKarma" /\ CheckKarma(arg.guild, Channel, arg.subs)

OpSetAnnounce ==
    last = "none" /\ arg.kind = "SetAnnounce" /\ SetAnnounce(arg.guild, Channel, MessageID, arg.text)

OpTop == last = "none" /\ arg.kind = "Top" /\ Top(arg.guild, Channel, arg.text)

OpBot == last = "none" /\ arg.kind = "Bot" /\ Bot(arg.guild, Channel, arg.text)

OpMessageCreate ==
    last = "none" /\ arg.kind = "publisher" /\ OnMessageCreate(ArgMessage, arg.self, arg.reactOK)

OpDelivery == last = "none" /\ arg.kind = "consumer" /\ OnDelivery(arg.delivery)

NextOp ==
    \/ OpModKarma
    \/ OpCheckKarma
    \/ OpSetAnnounce
    \/ OpTop
    \/ OpBot
    \/ OpMessageCreate
    \/ OpDelivery

SpecOp == InitOp /\ [][NextOp]_vars

\* every state of the store that Spec reaches is one SpecOp starts from
LedgerInv ==
    [entities |-> entities, configs |-> configs, lastSet |-> lastSet] \in LedgerStates

(***************************************************************************)
(* SpecConc: ModKarma run by concurrent workers, one per inbound message.  *)
(* A worker takes one step per call on the store; nothing in ModKarma      *)
(* holds a lock or opens a transaction around its calls.  Each worker      *)
(* handles one message.                                                    *)
(***************************************************************************)
\* the subjects of the messages the workers handle
ConcSubject == [Name : {<<"a">>, <<"@", "a">>}, Karma : {-1, 1}]

Keys == HomeGuilds \X ResolvedNames

\* the karma stored under a key: 0 when there is no row
Stored(db, key) ==
    FirstEntity(db, [GuildID |-> key[1], Name |-> key[2]]).Karma

InitConc ==
    /\ \E l \in LedgerStates :
          /\ entities = l.entities
          /\ configs = l.configs
          /\ lastSet = l.lastSet
          /\ sumDelta = [k \in Keys |-> Stored(l.entities, k)]
    /\ calls = <<>>
    /\ pubs = <<>>
    /\ result = <<>>
    /\ last = "none"
    /\ lastGuild = ""
    /\ arg = NoArg
    /\ wk = Idle
    /\ run = NotRunning

\* modifiers := marshalSubjects(ParseSubjects(message)); the range statement
\* fixes the order of the visits
WorkerStart(w, guildID, subs) ==
    /\ wk[w].pc = "idle"
    /\ \E order \in RangeOrders(marshalSubjects(subs)) :
          wk' = [wk EXCEPT ![w] = [IdleWorker EXCEPT !.pc = "loop",
                                       !.guildID = guildID,
                                       !.modifiers = marshalSubjects(subs),
                                       !.order = order]]
    /\ UNCHANGED <<entities, configs, calls, pubs, result, last, lastGuild, arg, lastSet, sumDelta, run>>

\* the head of an iteration: skip a zero net karma, else FirstOrCreate
WorkerRead(w) ==
    /\ wk[w].pc = "loop"
    /\ wk[w].order # <<>>
    /\ LET subject == Head(wk[w].order)
       IN  IF wk[w].modifiers[subject] = 0
           THEN /\ wk' = [wk EXCEPT ![w].order = Tail(@)]
                /\ UNCHANGED entities
           ELSE LET foc == FirstOrCreateEntity(entities,
                               [GuildID |-> wk[w].guildID, Name |-> subject])
                IN  /\ entities' = foc.db
                    /\ wk' = [wk EXCEPT ![w].pc = "write", ![w].entity = foc.entity]
    /\ UNCHANGED <<configs, calls, pubs, result, last, lastGuild, arg, lastSet, sumDelta, run>>

\* entity.Karma += netKarma; the reply line; Delete or Save
WorkerWrite(w) ==
    /\ wk[w].pc = "write"
    /\ LET subject  == Head(wk[w].order)
           netKarma == wk[w].modifiers[subject]
           entity   == [wk[w].entity EXCEPT !.Karma = @ + netKarma]
       IN  /\ entities' = ModWrite(entities, entity)
           /\ wk' = [wk EXCEPT ![w].pc = "loop",
                               ![w].order = Tail(@),
                               ![w].entity = entity,
                               ![w].reply = Append(@, Line(entity.Name, entity.Karma))]
           /\ sumDelta' = [sumDelta EXCEPT ![<<wk[w].guildID, subject>>] = @ + netKarma]
    /\ UNCHANGED <<configs, calls, pubs, result, last, lastGuild, arg, lastSet, run>>

\* after the loop: return on an empty reply, else read the config and send
WorkerFinish(w) ==
    /\ wk[w].pc = "loop"
    /\ wk[w].order = <<>>
    /\ IF wk[w].reply = <<>>
       THEN /\ calls' = <<>>
            /\ UNCHANGED configs
       ELSE LET c == FirstOrCreateConfig(configs, [GuildID |-> wk[w].guildID])
            IN  /\ configs' = c.db
                /\ calls' = ModAnnounce(c.cfg, Channel, wk[w].reply)
    /\ result' = wk[w].reply
    /\ last' = "ModKarma"
    /\ lastGuild' = wk[w].guildID
    /\ wk' = [wk EXCEPT ![w].pc = "done"]
    /\ UNCHANGED <<entities, pubs, arg, lastSet, sumDelta, run>>

NextConc ==
    \/ \E w \in 1..MaxWorkers, g \in HomeGuilds, subs \in SeqsUpTo(ConcSubject, MaxSubs) :
          WorkerStart(w, g, subs)
    \/ \E w \in 1..MaxWorkers : WorkerRead(w)
    \/ \E w \in 1..MaxWorkers : WorkerWrite(w)
    \/ \E w \in 1..MaxWorkers : WorkerFinish(w)

SpecConc == InitConc /\ [][NextConc]_vars

\* no worker is inside ModKarma
Quiescent == \A w \in 1..MaxWorkers : wk[w].pc \in {"idle", "done"}

(***************************************************************************)
(* SpecRoute: Route applied once to a prefix and a text.  A text is made   *)
(* of a lead (the prefix, another mention, or nothing), a separator, a     *)
(* word and a tail.                                                        *)
(***************************************************************************)
RoutePrefixes == {<<"@", "c">>, <<"b">>}

RouteLeads(prefix) == {prefix, <<"@", "d">>, <<>>}

RouteSeps == {<<>>, <<" ">>, <<" ", " ">>}

RouteWords ==
    {Keywords[i].word : i \in 1..Len(Keywords)}
        \cup {<<>>, <<"x">>, <<"a", "+", "+">>, <<"T", "o", "p">>}

RouteTails == {<<>>, <<" ", "o", "n">>, <<" ", " ", "3">>, <<"s">>}

RouteArgs ==
    {[kind |-> "Route", prefix |-> p, text |-> l \o sp \o w \o t] :
        p \in RoutePrefixes, l \in UNION {RouteLeads(q) : q \in RoutePrefixes},
        sp \in RouteSeps, w \in RouteWords, t \in RouteTails}

\* the cases of TestMux that run
MuxTests ==
    {[prefix |-> <<"@", "c", "o", "l", "t">>,
      text |-> <<"@", "c", "o", "l", "t", " ", "a", "n", "n", "o", "u", "n", "c", "e", " ", "o", "n">>,
      kind |-> "Announce"],
     [prefix |-> <<"b", "u", "l", "l">>,
      text |-> <<"b", "u", "l", "l", " ", "a", "n", "n", "o", "u", "n", "c", "e">>,
      kind |-> "Announce"],
     [prefix |-> <<"g", "o", "a", "t">>,
      text |-> <<"g", "o", "a", "t", " ", "k", "a", "r", "m", "a">>,
      kind |-> "Karma"],
     [prefix |-> <<"h", "a", "r", "e">>,
      text |-> <<"h", "a", "r", "e", " ", "t", "o", "p">>,
      kind |-> "Leaderboard"],
     [prefix |-> <<"m", "u", "l", "e">>,
      text |-> <<"m", "u", "l", "e", " ", "b", "o", "t">>,
      kind |-> "Loserboard"],
     [prefix |-> <<"n", "e", "w", "t">>,
      text |-> <<"w", "o", "l", "f", " ", "s", "e", "a", "l", " ", "o", "x", "e", "n">>,
      kind |-> "BumpKarma"]}

\* the case of TestMux that reads the body
MuxBodyTest ==
    [prefix |-> <<"@", "c", "o", "l", "t">>,
     text |-> <<"@", "c", "o", "l", "t", " ", "a", "n", "n", "o", "u", "n", "c", "e", " ", "o", "n">>,
     body |-> <<" ", "o", "n">>]

InitRoute ==
    /\ arg \in RouteArgs
    /\ entities = {}
    /\ configs = {}
    /\ calls = <<>>
    /\ pubs = <<>>
    /\ result = <<>>
    /\ last = "none"
    /\ lastGuild = ""
    /\ lastSet = [g \in Guilds |-> "never"]
    /\ wk = Idle
    /\ sumDelta = <<>>
    /\ run = NotRunning

DoRoute ==
    /\ last = "none"
    /\ arg.kind = "Route"
    /\ result' = Route(arg.prefix, arg.text)
    /\ last' = "Route"
    /\ UNCHANGED <<entities, configs, calls, pubs, lastGuild, arg, lastSet, wk, sumDelta, run>>

NextRoute == DoRoute

SpecRoute == InitRoute /\ [][NextRoute]_vars

(***************************************************************************)
(* SpecBoard: Top or Bot run once on a store of two guilds.  The first     *)
(* guild has up to three entries, with ties; the second has an entry whose *)
(* karma lies outside the range of the first guild's.                      *)
(***************************************************************************)
BoardNames == {<<"a">>, <<"b">>, <<"c">>}

BoardKarma == {-1, 1, 2}

OutsideKarma == {-3, 3}

BoardTables ==
    {t1 \cup t2 :
        t1 \in {t \in SUBSET [GuildID : {"g1"}, Name : BoardNames, Karma : BoardKarma] :
                   \A r1, r2 \in t : SameEntity(r1, r2) => r1 = r2},
        t2 \in {t \in SUBSET [GuildID : {"g2"}, Name : {<<"a">>}, Karma : OutsideKarma] :
                   Cardinality(t) <= 1}}

BoardArgs ==
    {[NoArg EXCEPT !.kind = k, !.guild = g, !.text = t] :
        k \in {"Top", "Bot"}, g \in Guilds, t \in BoardTexts}

\* ModKarma makes the config of a guild when it writes an entry of the guild
InitBoard ==
    /\ entities \in BoardTables
    /\ configs = {[GuildID |-> r.GuildID, NoAnnounce |-> FALSE] : r \in entities}
    /\ arg \in BoardArgs
    /\ calls = <<>>
    /\ pubs = <<>>
    /\ result = <<>>
    /\ last = "none"
    /\ lastGuild = ""
    /\ lastSet = [g \in Guilds |-> "never"]
    /\ wk = Idle
    /\ sumDelta = <<>>
    /\ run = NotRunning

NextBoard ==
    \/ OpTop
    \/ OpBot

SpecBoard == InitBoard /\ [][NextBoard]_vars

(***************************************************************************)
(* SpecGuild: one handler run once for one of two guilds, on a store in    *)
(* which both guilds may hold entries of the same names and a config.      *)
(***************************************************************************)
GuildKarma == {-1, 1}

GuildTables ==
    {t \in SUBSET [GuildID : Guilds, Name : ResolvedNames, Karma : GuildKarma] :
        \A r1, r2 \in t : SameEntity(r1, r2) => r1 = r2}

\* per guild: no config, announcing, or silenced by SetAnnounce
GuildConfigs ==
    {c \in SUBSET [GuildID : Guilds, NoAnnounce : BOOLEAN] :
        \A r1, r2 \in c : r1.GuildID = r2.GuildID => r1 = r2}

GuildArgs ==
    {[NoArg EXCEPT !.kind = "ModKarma", !.guild = g, !.subs = subs] :
        g \in Guilds, subs \in SeqsUpTo(Subject, MaxSubs)}
    \cup {[NoArg EXCEPT !.kind = "CheckKarma", !.guild = g, !.subs = subs] :
        g \in Guilds, subs \in SeqsUpTo(Query, MaxSubs)}
    \cup {[NoArg EXCEPT !.kind = "SetAnnounce", !.guild = g, !.text = t] :
        g \in Guilds, t \in AnnounceTexts}
    \cup {[NoArg EXCEPT !.kind = k, !.guild = g, !.text = t] :
        k \in {"Top", "Bot"}, g \in Guilds, t \in BoardTexts}

\* ModKarma makes the config of a guild when it writes an entry of the guild;
\* only SetAnnounce sets NoAnnounce
InitGuild ==
    /\ entities \in GuildTables
    /\ configs \in GuildConfigs
    /\ \A r \in entities : \E c \in configs : c.GuildID = r.GuildID
    /\ lastSet = [g \in Guilds |->
                     IF [GuildID |-> g, NoAnnounce |-> TRUE] \in configs
                     THEN "off" ELSE "never"]
    /\ arg \in GuildArgs
    /\ calls = <<>>
    /\ pubs = <<>>
    /\ result = <<>>
    /\ last = "none"
    /\ lastGuild = ""
    /\ wk = Idle
    /\ sumDelta = <<>>
    /\ run = NotRunning

NextGuild ==
    \/ OpModKarma
    \/ OpCheckKarma
    \/ OpSetAnnounce
    \/ OpTop
    \/ OpBot

SpecGuild == InitGuild /\ [][NextGuild]_vars

(***************************************************************************)
(* SpecRun: run starts the publisher and the consumer and waits for both.  *)
(* The environment cancels the context, delivers response events and may   *)
(* close the stream; the gateway delivers chat messages to the publisher's *)
(* handler while it is attached.  An event on the stream is named by what  *)
(* happens when it is handled: "decode" (json.Unmarshal fails), "template" *)
(* (the template fails), "send" (the gateway call fails) or "ok".          *)
(***************************************************************************)
\* response events delivered before the cancellation
MaxEvents == 3
\* deliveries the stream holds until the consumer receives them
StreamCap == 1

EventKinds == {"decode", "template", "send", "ok"}

\* the delivery behind a kind of event
RunDelivery(kind) ==
    IF kind = "decode"
    THEN [decodes |-> FALSE, event |-> Event("none", Nil)]
    ELSE [decodes |-> TRUE,
          event |-> Event("CheckedKarma",
                          [ReplyTo |-> [ChannelID |-> Channel], Who |-> SampleWho])]

\* the chat messages the gateway delivers while run is going
RunMessages ==
    {m \in Messages :
        m.GuildID = "g1" /\ m.Content \in {<<"a", "+", "+">>,
                                            <<"@", "c", " ", "t", "o", "p">>}}

\* the variants whose case renders a template before its gateway call
UsesTemplate(actual) ==
    \E f \in {"CheckedKarma", "CheckedLeaderboard", "CheckedLoserboard"} :
        actual[f] # Nil

\* the gateway calls of one delivery; tmplOK: the template returns no error
ConsumerCalls(d, tmplOK) ==
    IF ~d.decodes THEN <<>>
    ELSE IF UsesTemplate(d.event) /\ ~tmplOK THEN <<>>
    ELSE ConsumerSwitch(d.event)

\* faulty variant: a gateway call that fails is made again
GatewayCallRetries(attempt, sendOK) == IF sendOK THEN attempt ELSE attempt \o attempt

\* the gateway call of a case and its error branch, which logs; sendOK: the
\* call returns no error
GatewayCall(attempt, sendOK) == attempt

\* ch.PublishWithContext and its error branch, which logs; pubOK: the
\* publish returns no error
PublishWithContext(attempt, pubOK) == attempt

\* faulty variant: an error while handling an event ends the loop
AfterHandleStops(decodes, tmplOK, sendOK) ==
    IF decodes /\ tmplOK /\ sendOK THEN "select" ELSE "stopped"

\* where the consumer goes after an event: every error path is a continue
AfterHandle(decodes, tmplOK, sendOK) == "select"

Started ==
    [main |-> "start", ctx |-> "live", pub |-> "none", con |-> "none",
     stream |-> <<>>, closed |-> FALSE, cur |-> "none",
     nIn |-> 0, nOut |-> 0, late |-> FALSE, errAt |-> 0]

InitRun ==
    /\ run = Started
    /\ entities = {}
    /\ configs = {}
    /\ calls = <<>>
    /\ pubs = <<>>
    /\ result = <<>>
    /\ last = "none"
    /\ lastGuild = ""
    /\ arg = NoArg
    /\ lastSet = [g \in Guilds |-> "never"]
    /\ wk = Idle
    /\ sumDelta = <<>>

Rest == <<entities, configs, calls, pubs, result, last, lastGuild, arg, lastSet, wk, sumDelta>>

\* wg.Add(2); go publisher(...); go consumer(...)
MainGo ==
    /\ run.main = "start"
    /\ run' = [run EXCEPT !.main = "waiting", !.pub = "start", !.con = "start"]
    /\ UNCHANGED Rest

\* wg.Wait(); return nil
MainReturn ==
    /\ run.main = "waiting"
    /\ run.pub = "stopped"
    /\ run.con = "stopped"
    /\ run' = [run EXCEPT !.main = "returned"]
    /\ UNCHANGED Rest

\* the interrupt signal cancels the context
Cancel ==
    /\ run.main # "returned"
    /\ run.ctx = "live"
    /\ run' = [run EXCEPT !.ctx = "done"]
    /\ UNCHANGED Rest

\* the bus puts a response event on the stream
Deliver(kind) ==
    /\ run.main = "waiting"
    /\ ~run.closed
    /\ Len(run.stream) < StreamCap
    /\ run.ctx = "done" \/ run.nIn < MaxEvents
    /\ run' = [run EXCEPT !.stream = Append(@, kind),
                          !.nIn = IF run.ctx = "live" THEN @ + 1 ELSE @]
    /\ UNCHANGED Rest

\* the bus closes the stream
CloseStream ==
    /\ run.main = "waiting"
    /\ ~run.closed
    /\ run' = [run EXCEPT !.closed = TRUE]
    /\ UNCHANGED Rest

\* session.AddHandler(...): the handler is attached
PubStart ==
    /\ run.pub = "start"
    /\ run' = [run EXCEPT !.pub = "blocked"]
    /\ UNCHANGED Rest

\* the gateway calls the attached handler with a chat message
PubMessage(m, pubOK) ==
    /\ run.pub = "blocked"
    /\ LET h == PubHandle(m, FALSE, TRUE)
       IN  /\ calls' = h.calls
           /\ pubs' = PublishWithContext(h.pubs, pubOK)
    /\ result' = <<>>
    /\ last' = "publisher"
    /\ lastGuild' = m.GuildID
    /\ UNCHANGED <<entities, configs, arg, lastSet, wk, sumDelta, run>>

\* <-ctx.Done(); the deferred calls detach the handler and mark the group
PubStop ==
    /\ run.pub = "blocked"
    /\ run.ctx = "done"
    /\ run' = [run EXCEPT !.pub = "stopped"]
    /\ UNCHANGED Rest

ConStart ==
    /\ run.con = "start"
    /\ run' = [run EXCEPT !.con = "select"]
    /\ UNCHANGED Rest

\* select: case <-ctx.Done()
ConDone ==
    /\ run.con = "select"
    /\ run.ctx = "done"
    /\ run' = [run EXCEPT !.con = "stopped"]
    /\ UNCHANGED Rest

\* select: case evt, ok := <-events, with ok true.  When the context is done
\* too, select takes either case.
ConReceive ==
    /\ run.con = "select"
    /\ run.stream # <<>>
    /\ run' = [run EXCEPT !.con = "handling",
                          !.cur = Head(run.stream),
                          !.stream = Tail(@),
                          !.late = @ \/ run.ctx = "done"]
    /\ UNCHANGED Rest

\* select: case evt, ok := <-events, with ok false
ConClosed ==
    /\ run.con = "select"
    /\ run.stream = <<>>
    /\ run.closed
    /\ run' = [run EXCEPT !.con = "stopped"]
    /\ UNCHANGED Rest

\* the body of the case: decode, switch, template, gateway call
ConHandle ==
    /\ run.con = "handling"
    /\ calls' = GatewayCall(ConsumerCalls(RunDelivery(run.cur), run.cur # "template"),
                            run.cur # "send")
    /\ pubs' = <<>>
    /\ result' = <<>>
    /\ last' = "consumer"
    /\ lastGuild' = ""
    /\ run' = [run EXCEPT
                  !.con = AfterHandle(run.cur # "decode", run.cur # "template",
                                      run.cur = "ok"),
                  !.cur = "none",
                  !.nOut = Min(@ + 1, MaxEvents),
                  !.errAt = IF @ = 0 /\ run.cur # "ok"
                            THEN Min(run.nOut + 1, MaxEvents) ELSE @]
    /\ UNCHANGED <<entities, configs, arg, lastSet, wk, sumDelta>>

NextRun ==
    \/ MainGo
    \/ MainReturn
    \/ Cancel
    \/ \E kind \in EventKinds : Deliver(kind)
    \/ CloseStream
    \/ PubStart
    \/ \E m \in RunMessages, pubOK \in BOOLEAN : PubMessage(m, pubOK)
    \/ PubStop
    \/ ConStart
    \/ ConDone
    \/ ConReceive
    \/ ConClosed
    \/ ConHandle

\* Every goroutine that can take a step takes one.  select chooses among its
\* ready cases at random, so the case of the context, ready again each time
\* the consumer comes back to select, is not passed over for ever.
SpecRun ==
    /\ InitRun
    /\ [][NextRun]_vars
    /\ WF_vars(MainGo)
    /\ WF_vars(MainReturn)
    /\ WF_vars(PubStart)
    /\ WF_vars(PubStop)
    /\ WF_vars(ConStart)
    /\ SF_vars(ConDone)
    /\ WF_vars(ConReceive)
    /\ WF_vars(ConClosed)
    /\ WF_vars(ConHandle)

(***************************************************************************)
(* Properties.                                                             *)
(***************************************************************************)
HasRow(db, guildID, name) == \E r \in db : r.GuildID = guildID /\ r.Name = name

\* C1. Zero-balance invariant: after any sequence of handlers the Entity
\* table holds no row whose Karma is 0; an entry that ModKarma reports at 0
\* karma has been deleted; and CheckKarma reports the stored karma, 0 for a
\* name that has no row.
C1_ZeroBalance ==
    /\ \A r \in entities : r.Karma # 0
    /\ last = "ModKarma" =>
          \A i \in DOMAIN result :
              result[i].Karma = 0 => ~HasRow(entities, lastGuild, result[i].Name)
    /\ last = "CheckKarma" =>
          \A i \in DOMAIN result :
              /\ result[i].Karma = Stored(entities, <<lastGuild, result[i].Name>>)
              /\ result[i].Karma = 0 => ~HasRow(entities, lastGuild, result[i].Name)

\* a bump has just brought an entry to 0 and the entry is gone
C1_Witness ==
    /\ last = "ModKarma"
    /\ \E i \in DOMAIN result :
          result[i].Karma = 0 /\ ~HasRow(entities, lastGuild, result[i].Name)

\* C2. Concurrent ModKarma on one (guild, subject) key are serialized: once
\* every worker has returned, the stored karma of each key is the initial
\* karma plus the sum of the deltas applied, there is one row per key at
\* most, and no row holds 0.
C2_Serialized ==
    Quiescent =>
        /\ \A k \in Keys : Stored(entities, k) = sumDelta[k]
        /\ \A r1, r2 \in entities : SameEntity(r1, r2) => r1 = r2
        /\ \A r \in entities : r.Karma # 0

\* the sum of the deltas that a message gives to one resolved name
RECURSIVE NetDelta(_, _)
NetDelta(subs, name) ==
    IF subs = <<>> THEN 0
    ELSE (IF ResolveName(Head(subs).Name) = name THEN Head(subs).Karma ELSE 0)
         + NetDelta(Tail(subs), name)

NamedIn(subs) == {ResolveName(subs[i].Name) : i \in DOMAIN subs}

RowsOf(db, guildID, name) == {r \in db : r.GuildID = guildID /\ r.Name = name}

\* C3. In one ModKarma, a name whose occurrences in the message sum to 0
\* gets no write (its rows are the same before and after) and is absent
\* from the result; when no name of the message has a non-zero sum, nothing
\* is written at all and no gateway call is made.
C3_NetZero ==
    [][(last = "none" /\ arg.kind = "ModKarma") =>
          /\ \A n \in NamedIn(arg.subs) :
                NetDelta(arg.subs, n) = 0 =>
                    /\ RowsOf(entities', arg.guild, n) = RowsOf(entities, arg.guild, n)
                    /\ \A i \in DOMAIN result' : result'[i].Name # n
          /\ (\A n \in NamedIn(arg.subs) : NetDelta(arg.subs, n) = 0) =>
                /\ entities' = entities
                /\ configs' = configs
                /\ result' = <<>>
                /\ calls' = <<>>]_vars

\* ModKarma has handled a message whose two non-zero bumps of one name
\* cancel, on a store that holds that name, and has made no reply
C3_Witness ==
    /\ last = "ModKarma"
    /\ \E i, j \in DOMAIN arg.subs :
          /\ i # j
          /\ arg.subs[i].Karma # 0
          /\ ResolveName(arg.subs[i].Name) = ResolveName(arg.subs[j].Name)
          /\ NetDelta(arg.subs, ResolveName(arg.subs[i].Name)) = 0
          /\ HasRow(entities, arg.guild, ResolveName(arg.subs[i].Name))
    /\ \A n \in NamedIn(arg.subs) : NetDelta(arg.subs, n) = 0
    /\ result = <<>>
    /\ calls = <<>>

\* C4. CheckKarma is a pure read: the Entity rows and the Config rows are
\* the same before and after it, every requested name is reported once with
\* the karma stored for it before the call (0 when it has no row), and the
\* report is sent to the channel.
C4_PureRead ==
    [][(last = "none" /\ arg.kind = "CheckKarma") =>
          /\ entities' = entities
          /\ configs' = configs
          /\ {result'[i].Name : i \in DOMAIN result'} = NamedIn(arg.subs)
          /\ Len(result') = Cardinality(NamedIn(arg.subs))
          /\ \A i \in DOMAIN result' :
                result'[i].Karma = Stored(entities, <<arg.guild, result'[i].Name>>)
          /\ calls' = <<ChannelMessageSend(Channel, Text("levels", result'))>>]_vars

\* CheckKarma has reported 0 for a name without a row and the stored karma
\* of a name with one
C4_Witness ==
    /\ last = "CheckKarma"
    /\ \E i, j \in DOMAIN result :
          /\ result[i].Karma = 0
          /\ ~HasRow(entities, lastGuild, result[i].Name)
          /\ result[j].Karma # 0
          /\ HasRow(entities, lastGuild, result[j].Name)

\* the deliveries whose envelope holds a ChangedKarma response and nothing else
KarmaDeliveries ==
    {d \in Deliveries : d.decodes /\ Populated(d.event) = {"ChangedKarma"}}

\* C5. Announce suppression: a ModKarma with a non-zero net delta changes
\* the Entity table; when the guild's latest SetAnnounce chose off it makes
\* no gateway call, and when it chose on it sends the reply to the channel.
\* On the response stream, a ChangedKarma with Announce false causes no
\* gateway call and one with Announce true sends the reply.
C5_Suppression ==
    [][/\ (last' = "ModKarma" /\ result' # <<>>) =>
              /\ entities' # entities
              /\ lastSet[lastGuild'] = "off" => calls' = <<>>
              /\ lastSet[lastGuild'] = "on" =>
                    calls' = <<ChannelMessageSend(Channel, Text("levels", result'))>>
       /\ \A d \in KarmaDeliveries :
              OnDelivery(d) =>
                  calls' = IF d.event["ChangedKarma"].Announce
                           THEN <<ChannelMessageSend(
                                      d.event["ChangedKarma"].ReplyTo.ChannelID,
                                      Text("levels", d.event["ChangedKarma"].Who))>>
                           ELSE <<>>]_vars

\* after a SetAnnounce that chose off, a ModKarma has changed an entry and
\* made no gateway call
C5_Witness ==
    /\ last = "ModKarma"
    /\ lastSet[lastGuild] = "off"
    /\ result # <<>>
    /\ entities # {}
    /\ calls = <<>>

CheckedFields == {"CheckedKarma", "CheckedLeaderboard", "CheckedLoserboard"}

\* the lines a Checked* response carries
CheckedLines(f, rsp) == IF f = "CheckedKarma" THEN rsp.Who ELSE rsp.Board

\* C6. Replies to queries do not depend on the announce setting: whatever
\* the guild's Config holds, a delivery whose envelope holds one CheckedKarma,
\* CheckedLeaderboard or CheckedLoserboard response makes exactly one
\* ChannelMessageSend, to the response's reply channel, and the handlers
\* CheckKarma, Top and Bot make exactly one ChannelMessageSend to the
\* channel of the message.
C6_QueryReplies ==
    /\ \A f \in CheckedFields :
          (/\ last = "consumer"
           /\ arg.delivery.decodes
           /\ Populated(arg.delivery.event) = {f}) =>
              calls = <<ChannelMessageSend(
                            arg.delivery.event[f].ReplyTo.ChannelID,
                            Text(IF f = "CheckedKarma" THEN "levels" ELSE "board",
                                 CheckedLines(f, arg.delivery.event[f])))>>
    /\ last \in {"CheckKarma", "Top", "Bot"} =>
          /\ Len(calls) = 1
          /\ calls[1].op = "ChannelMessageSend"
          /\ calls[1].ChannelID = Channel

\* with NoAnnounce set for the guild, a CheckedLoserboard response has been
\* answered on its reply channel
C6_Witness ==
    /\ last = "consumer"
    /\ arg.delivery.decodes
    /\ Populated(arg.delivery.event) = {"CheckedLoserboard"}
    /\ \E c \in configs : c.NoAnnounce
    /\ Len(calls) = 1
    /\ calls[1].op = "ChannelMessageSend"
    /\ calls[1].ChannelID = arg.delivery.event["CheckedLoserboard"].ReplyTo.ChannelID

\* the Config rows agree with the latest SetAnnounce of every guild
AnnounceState ==
    \A g \in Guilds :
        /\ \A c1, c2 \in configs : c1.GuildID = c2.GuildID => c1 = c2
        /\ lastSet[g] = "on" =>
              \E c \in configs : c.GuildID = g /\ ~c.NoAnnounce
        /\ lastSet[g] = "off" =>
              \E c \in configs : c.GuildID = g /\ c.NoAnnounce
        /\ lastSet[g] = "never" =>
              \A c \in configs : c.GuildID = g => ~c.NoAnnounce

\* the chat messages that the publisher routes to the announce command
AnnounceMessages ==
    {m \in Messages :
        m.GuildID # "" /\ Route(<<"@">> \o Username, TrimSpace(m.Content)).kind = "Announce"}

\* the setting a chat message asks for: its third word, in lower case
AskedOn(m) == ToLower(Fields(m.Content)[3]) \in {<<"o", "n">>, <<"y", "e", "s">>}

\* C7. The announce state of a guild is the one its latest SetAnnounce
\* chose: after every step the guild's one Config row has NoAnnounce = ~on
\* for the latest SetAnnounce(on), and NoAnnounce = FALSE when there was
\* none, so that a ModKarma on such a guild sends its reply; a
\* RequestChangeAnnounce that the publisher sends carries NoAnnounce = ~on
\* for the setting the chat message asks for.
C7_LastSetAnnounce ==
    [][/\ AnnounceState'
       /\ (last' = "ModKarma" /\ result' # <<>> /\ lastSet[lastGuild'] = "never") =>
              /\ \E c \in configs' : c.GuildID = lastGuild' /\ ~c.NoAnnounce
              /\ calls' = <<ChannelMessageSend(Channel, Text("levels", result'))>>
       /\ (last' = "publisher" /\ pubs' # <<>>) =>
              \A m \in AnnounceMessages, reactOK \in BOOLEAN :
                  OnMessageCreate(m, FALSE, reactOK) =>
                      /\ Len(pubs') = 1
                      /\ Populated(pubs'[1]) = {"RequestChangeAnnounce"}
                      /\ pubs'[1]["RequestChangeAnnounce"].ServerID = m.GuildID
                      /\ pubs'[1]["RequestChangeAnnounce"].NoAnnounce = ~AskedOn(m)]_vars

\* a guild whose latest SetAnnounce chose off still has NoAnnounce set after
\* a later ModKarma has read its Config
C7_Witness ==
    /\ last = "ModKarma"
    /\ result # <<>>
    /\ lastSet[lastGuild] = "off"
    /\ \E c \in configs : c.GuildID = lastGuild /\ c.NoAnnounce

\* the publisher has handled a chat message of a guild that the bot did not
\* write
Published == last = "publisher" /\ ~arg.self /\ arg.guild # ""

\* the route of the chat message the publisher has handled
ArgRoute == Route(<<"@">> \o Username, TrimSpace(arg.text))

\* C8. Argument errors never propagate: when the chat message is an
\* announce command whose argument is missing or invalid, or a karma query
\* whose argument does not parse, the publisher makes a gateway call (the
\* question-mark reaction, the usage hint) and publishes no request.
C8_NoPropagation ==
    (/\ Published
     /\ \/ ArgRoute.kind = "Announce" /\ ParseAnnounceArgs(ArgRoute.body).err # ""
        \/ ArgRoute.kind = "Karma" /\ ParseKarmaArgs(ArgRoute.body).err # "") =>
        /\ calls # <<>>
        /\ pubs = <<>>

BoardFields == {"RequestCheckLeaderboard", "RequestCheckLoserboard"}

\* the words after the keyword of a board command
LimitWords == Fields(ArgRoute.body)

\* the first word is there and is no positive integer
BadLimit ==
    /\ LimitWords # <<>>
    /\ ~(Atoi(LimitWords[1]).ok /\ Atoi(LimitWords[1]).val > 0)

\* C9. In the publisher, a board command whose limit word is present but is
\* no positive integer gets the hint and publishes nothing; any other board
\* command publishes one request of its kind, whose Limit is 10 when there
\* is no limit word and the value of the word otherwise; every published
\* board request has Limit >= 1.
C9_BoardLimit ==
    /\ (Published /\ ArgRoute.kind \in {"Leaderboard", "Loserboard"}) =>
          IF BadLimit
          THEN /\ calls = <<ChannelMessageSend(Channel, Text("limit-hint", <<>>))>>
               /\ pubs = <<>>
          ELSE /\ calls = <<>>
               /\ Len(pubs) = 1
               /\ Populated(pubs[1]) =
                     {IF ArgRoute.kind = "Leaderboard"
                      THEN "RequestCheckLeaderboard" ELSE "RequestCheckLoserboard"}
               /\ \A f \in Populated(pubs[1]) :
                     pubs[1][f].Limit =
                         IF LimitWords = <<>> THEN 10 ELSE Atoi(LimitWords[1]).val
    /\ \A i \in DOMAIN pubs : \A f \in BoardFields :
          pubs[i][f] # Nil => pubs[i][f].Limit >= 1

\* a board command with a negative limit has got the hint and no request
C9_Witness ==
    /\ Published
    /\ ArgRoute.kind = "Loserboard"
    /\ LimitWords # <<>>
    /\ Atoi(LimitWords[1]).ok
    /\ Atoi(LimitWords[1]).val < 0
    /\ calls = <<ChannelMessageSend(Channel, Text("limit-hint", <<>>))>>
    /\ pubs = <<>>

\* C10. The consumer treats an envelope with no populated field or with
\* more than one as malformed: having decoded such an envelope it makes no
\* gateway call.
C10_Malformed ==
    (/\ last = "consumer"
     /\ arg.delivery.decodes
     /\ Cardinality(Populated(arg.delivery.event)) # 1) =>
        calls = <<>>

\* the request variant of a routed command kind
RequestOf(kind) ==
    CASE kind = "Announce" -> "RequestChangeAnnounce"
      [] kind = "BumpKarma" -> "RequestBumpKarma"
      [] kind = "Karma" -> "RequestCheckKarma"
      [] kind = "Leaderboard" -> "RequestCheckLeaderboard"
      [] kind = "Loserboard" -> "RequestCheckLoserboard"

\* C11. Every event the publisher puts on the request queue has exactly one
\* populated field, which is the request variant of the routed command kind,
\* and carries the guild of the chat message and its reply destination (the
\* channel, and for the announce command the channel and the message).
C11_OneRequest ==
    last = "publisher" =>
        \A i \in DOMAIN pubs :
            /\ Cardinality(Populated(pubs[i])) = 1
            /\ Populated(pubs[i]) \subseteq RequestFields
            /\ Populated(pubs[i]) = {RequestOf(ArgRoute.kind)}
            /\ \A f \in Populated(pubs[i]) :
                  /\ pubs[i][f].ServerID = arg.guild
                  /\ IF f = "RequestChangeAnnounce"
                     THEN pubs[i][f].ReactTo =
                              [ChannelID |-> Channel, MessageID |-> MessageID]
                     ELSE pubs[i][f].ReplyTo = [ChannelID |-> Channel]

\* the publisher has put a RequestBumpKarma with a subject on the queue
C11_Witness ==
    /\ Published
    /\ ArgRoute.kind = "BumpKarma"
    /\ Len(pubs) = 1
    /\ Populated(pubs[1]) = {"RequestBumpKarma"}
    /\ pubs[1]["RequestBumpKarma"].ServerID = "g1"
    /\ pubs[1]["RequestBumpKarma"].Who # <<>>

\* the keywords that follow the prefix in a text, directly or after one space
KeywordsAfter(prefix, text) ==
    {<<sp, i>> \in {<<>>, <<" ">>} \X (1..Len(Keywords)) :
        HasPrefix(text, prefix \o sp \o Keywords[i].word)}

C13_RouteBody ==
    /\ last = "Route" =>
          /\ \A h \in KeywordsAfter(arg.prefix, arg.text) :
                result.body =
                    SubSeq(arg.text,
                           Len(arg.prefix) + Len(h[1]) + Len(Keywords[h[2]].word) + 1,
                           Len(arg.text))
          /\ ~HasPrefix(arg.text, arg.prefix) => result.body = arg.text
    /\ Route(MuxBodyTest.prefix, MuxBodyTest.text).body = MuxBodyTest.body

\* the body of a matched route begins with the two spaces that trail the
\* keyword
C13_Witness ==
    /\ last = "Route"
    /\ KeywordsAfter(arg.prefix, arg.text) # {}
    /\ result.body = <<" ", " ", "3">>

\* the limit a board message asks for; the handler takes 10 for any other text
AskedLimit ==
    CASE arg.text = <<"1">> -> 1
      [] arg.text = <<"2">> -> 2
      [] OTHER -> 10

\* the entries of the guild of the message
GuildRows == {r \in entities : r.GuildID = arg.guild}

\* the entries of the guild that the board lists
Listed == {r \in GuildRows : \E i \in DOMAIN result : result[i].Name = r.Name}

\* C14. Top lists min(limit, number of entries of the guild) entries, each
\* an entry of that guild with its karma, no entry twice, in descending
\* order of karma, and no entry of the guild that is left out has more karma
\* than a listed one; Bot is the same with ascending order and less karma.
C14_Board ==
    last \in {"Top", "Bot"} =>
        /\ Len(result) = Min(AskedLimit, Cardinality(GuildRows))
        /\ \A i \in DOMAIN result :
              \E r \in GuildRows : r.Name = result[i].Name /\ r.Karma = result[i].Karma
        /\ \A i, j \in DOMAIN result : i # j => result[i].Name # result[j].Name
        /\ \A i, j \in DOMAIN result :
              i < j => IF last = "Top"
                       THEN result[i].Karma >= result[j].Karma
                       ELSE result[i].Karma <= result[j].Karma
        /\ \A out \in GuildRows \ Listed : \A in \in Listed :
              IF last = "Top" THEN out.Karma <= in.Karma ELSE out.Karma >= in.Karma

\* Top with limit 2 over three entries of the guild, two of them tied at
\* the top, has listed the two tied entries, while the other guild holds an
\* entry with more karma
C14_Witness ==
    /\ last = "Top"
    /\ arg.text = <<"2">>
    /\ Cardinality(GuildRows) = 3
    /\ Len(result) = 2
    /\ result[1].Karma = 2
    /\ result[2].Karma = 2
    /\ \E r \in entities : r.GuildID # arg.guild /\ r.Karma > 2

BothStopped == run.pub = "stopped" /\ run.con = "stopped"

\* C15. Cooperative shutdown: once the context is cancelled the publisher
\* and the consumer eventually stop; the consumer receives no event after
\* the cancellation; run returns only after both have stopped.
C15_Shutdown ==
    /\ [](~run.late)
    /\ [](run.main = "returned" => BothStopped)
    /\ (run.ctx = "done" ~> BothStopped)

\* C16. No error of one event is fatal to the consumer: it stops only when
\* the context is cancelled or the stream is closed and drained, whatever
\* went wrong with the events before; and every event delivered before a
\* cancellation is handled, unless the context is cancelled first.
C16_NotFatal ==
    /\ [](run.main # "none" /\ run.con = "stopped" =>
              run.ctx = "done" \/ (run.closed /\ run.stream = <<>>))
    /\ \A k \in 1..MaxEvents :
          (run.main # "none" /\ run.nIn >= k) ~> (run.nOut >= k \/ run.ctx = "done")

\* an event has failed and a later one has been handled, and the consumer
\* is back at its select with the context live and the stream open
C16_Witness ==
    /\ run.main = "waiting"
    /\ run.errAt > 0
    /\ run.nOut > run.errAt
    /\ run.con = "select"
    /\ run.ctx = "live"
    /\ ~run.closed
    /\ calls # <<>>

\* the resolved names of a message whose deltas sum to a non-zero value, in
\* the order of their first occurrence
RECURSIVE FirstSeen(_, _, _)
FirstSeen(subs, all, seen) ==
    IF subs = <<>> THEN <<>>
    ELSE LET n == ResolveName(Head(subs).Name)
         IN  IF n \in seen \/ NetDelta(all, n) = 0
             THEN FirstSeen(Tail(subs), all, seen \cup {n})
             ELSE <<n>> \o FirstSeen(Tail(subs), all, seen \cup {n})

Mutated == FirstSeen(arg.subs, arg.subs, {})

\* C17 as stated. ModKarma reports, for every name of the message whose net
\* delta is not 0 and for no other name, the name and its karma after the
\* mutation (0 when the entry was deleted), and the lines are in the order
\* in which the names first occur in the message.
C17_FirstSeenOrder ==
    [][(last = "none" /\ arg.kind = "ModKarma") =>
          result' = [i \in 1..Len(Mutated) |->
                        Line(Mutated[i], Stored(entities', <<arg.guild, Mutated[i]>>))]]_vars

\* C17, amended. ModKarma reports one line for every name of the message
\* whose net delta is not 0 and no line for any other name; each line holds
\* the name and its karma after the mutation, which is the karma stored
\* before plus the net delta, and 0 exactly when the entry has been deleted.
\* The lines are in some order of the names.
C17_BumpReport ==
    [][(last = "none" /\ arg.kind = "ModKarma") =>
          /\ Len(result') = Len(Mutated)
          /\ \A i \in DOMAIN Mutated : \E j \in DOMAIN result' : result'[j].Name = Mutated[i]
          /\ \A j \in DOMAIN result' :
                LET n == result'[j].Name
                IN  /\ result'[j].Karma =
                          Stored(entities, <<arg.guild, n>>) + NetDelta(arg.subs, n)
                    /\ result'[j].Karma = Stored(entities', <<arg.guild, n>>)
                    /\ result'[j].Karma = 0 <=> ~HasRow(entities', arg.guild, n)]_vars

\* ModKarma has handled a message of three bumps on two names, has deleted
\* the entry of one at 0 and saved the entry of the other, and has reported
\* both
C17_Witness ==
    /\ last = "ModKarma" /\ arg.kind = "ModKarma"
    /\ Len(arg.subs) = 3
    /\ Len(result) = 2
    /\ \E i, j \in DOMAIN result :
          /\ result[i].Karma = 0 /\ ~HasRow(entities, arg.guild, result[i].Name)
          /\ result[j].Karma # 0 /\ HasRow(entities, arg.guild, result[j].Name)

\* C18. At most once, no retry: the handling of one chat message by the
\* publisher makes one publish attempt at most, whether the publish succeeds
\* or not; the handling of one response event by the consumer makes one
\* gateway call at most, whether the call succeeds or not, publishes
\* nothing, puts nothing back on the stream, keeps nothing of the event and
\* goes back to select.
C18_AtMostOnce ==
    [][/\ (run.main # "none" /\ run' = run) => Len(pubs') <= 1
       /\ (run.main # "none" /\ run.con = "handling" /\ run'.con # "handling") =>
             /\ Len(calls') <= 1
             /\ pubs' = <<>>
             /\ run'.stream = run.stream
             /\ run'.cur = "none"
             /\ run'.con = "select"]_vars

\* the consumer has made the gateway call of an event, the call has failed
\* (the first error of the run), and the consumer is back at select with one
\* call made and the stream empty
C18_Witness ==
    /\ run.main = "waiting" /\ last = "consumer"
    /\ run.errAt = run.nOut /\ run.nOut < MaxEvents
    /\ Len(calls) = 1
    /\ run.con = "select" /\ run.cur = "none" /\ run.stream = <<>>

\* the rows of a table that belong to other guilds than g
Outside(db, g) == {r \in db : r.GuildID # g}

\* C19. Guild partitioning: ModKarma and SetAnnounce run for guild g leave
\* every Entity row and every Config row of every other guild as it was;
\* each line of CheckKarma for guild g holds the karma of g's own row of that
\* name, 0 when g has none; and each line of Top and Bot for guild g is a row
\* of g; all of this also when another guild holds a row of the same name.
C19_Partition ==
    [][last = "none" =>
          /\ arg.kind \in {"ModKarma", "SetAnnounce"} =>
                /\ Outside(entities', arg.guild) = Outside(entities, arg.guild)
                /\ Outside(configs', arg.guild) = Outside(configs, arg.guild)
          /\ arg.kind = "CheckKarma" =>
                \A i \in DOMAIN result' :
                    LET own == RowsOf(entities, arg.guild, result'[i].Name)
                    IN  IF own = {} THEN result'[i].Karma = 0
                        ELSE \E r \in own : result'[i].Karma = r.Karma
          /\ arg.kind \in {"Top", "Bot"} =>
                \A i \in DOMAIN result' :
                    \E r \in entities :
                        /\ r.GuildID = arg.guild
                        /\ r.Name = result'[i].Name
                        /\ r.Karma = result'[i].Karma]_vars

\* ModKarma has changed the karma of a name in one guild while another guild
\* holds a row of the same name with another karma and a config of its own
C19_Witness ==
    /\ last = "ModKarma" /\ arg.kind = "ModKarma"
    /\ result # <<>>
    /\ \E r \in entities, c \in configs :
          /\ r.GuildID # arg.guild
          /\ r.Name = result[1].Name
          /\ r.Karma # result[1].Karma
          /\ c.GuildID = r.GuildID /\ c.NoAnnounce

\* the message is one the publisher drops: the bot wrote it, or it has no
\* guild (a direct message)
Dropped == arg.self \/ arg.guild = ""

\* C20. For a chat message that the bot itself wrote, or that has no guild,
\* the publisher publishes no request and makes no gateway call (no message,
\* no reaction), and the store is left as it was; so a reply of the bot
\* that reads as a bump changes no karma.
C20_Dropped ==
    [][(last = "none" /\ arg.kind = "publisher" /\ Dropped) =>
          /\ pubs' = <<>>
          /\ calls' = <<>>
          /\ entities' = entities
          /\ configs' = configs]_vars

\* the publisher has handled a message of the bot itself, sent in a guild,
\* whose text is a bump of a subject, and has published nothing
C20_Witness ==
    /\ last = "publisher" /\ arg.kind = "publisher"
    /\ arg.self /\ arg.guild # ""
    /\ ArgRoute.kind = "BumpKarma"
    /\ ParseBumpKarmaArgs(ArgRoute.body) # <<>>
    /\ pubs = <<>> /\ calls = <<>>

=========================================================================
